---------------------------- MODULE Spec2Model ----------------------------
(***************************************************************************)
(* Model of copy_drive_folder.py: a depth-first copy of a Drive folder    *)
(* tree (folders, files, sharing grants) from --src to --dst.             *)
(*                                                                         *)
(* The remote Drive is part of the state (kind, children, perms); every   *)
(* remote call is one step whose outcome is either a result or HttpError. *)
(* The Python call stack of recursive_copy is the sequence `stack`.       *)
(***************************************************************************)
EXTENDS Integers, Sequences, FiniteSets, TLC

\* ----------------------------------------------------------------- bounds
MaxFaults == 2      \* HttpErrors injected in one run
MaxDepth == 3       \* nested recursive_copy frames before RecursionError
PageSize == 2       \* children returned by one files().list page

\* ------------------------------------------------------------ identifiers
SrcRoot == 1        \* args.src
ExtDst == 9         \* args.dst when it is a folder outside the source tree
FirstNewId == 10    \* ids the remote hands out to created items

FOLDER_MIME == "folder"
FILE_MIME == "file"
Absent == "absent"  \* a key the listed record does not carry

\* ------------------------------------------------------- permission records
Grant(id, type, role, email, domain) ==
    [id |-> id, type |-> type, role |-> role, emailAddress |-> email, domain |-> domain]

OwnerGrant == Grant(1, "user", "owner", "me@x", Absent)

\* permission listings a source item can carry
OnlyOwner == <<OwnerGrant>>
OneUser == <<OwnerGrant, Grant(2, "user", "writer", "u@x", Absent)>>
OneDomain == <<OwnerGrant, Grant(2, "domain", "reader", Absent, "x.org")>>
\* an "anyone" link grant and two grants that are replayed
WithAnyone == <<OwnerGrant, Grant(2, "anyone", "reader", Absent, Absent),
                Grant(3, "group", "writer", "g@x", Absent),
                Grant(4, "user", "reader", "v@x", Absent)>>
\* a user grant whose listed record carries no emailAddress (a deleted account)
NoEmail == <<OwnerGrant, Grant(2, "group", "writer", "g@x", Absent),
             Grant(3, "user", "writer", Absent, Absent),
             Grant(4, "domain", "reader", Absent, "x.org")>>

PermListings == {OnlyOwner, OneUser, OneDomain, WithAnyone, NoEmail}

\* the listings tried on item 3, the item that is nested in two of the trees
NestedListings == {OnlyOwner, OneUser}

\* ------------------------------------------------------------ source trees
\* A (folder 2, holding x.txt = 3) followed by y.txt = 4
ShapeScenario ==
    [ kind |-> (1 :> FOLDER_MIME) @@ (2 :> FOLDER_MIME) @@ (3 :> FILE_MIME)
               @@ (4 :> FILE_MIME) @@ (9 :> FOLDER_MIME),
      children |-> (1 :> <<2, 4>>) @@ (2 :> <<3>>) @@ (9 :> <<>>) ]

\* a chain: folder 2 holds folder 3 holds file 4
ShapeChain ==
    [ kind |-> (1 :> FOLDER_MIME) @@ (2 :> FOLDER_MIME) @@ (3 :> FOLDER_MIME)
               @@ (4 :> FILE_MIME) @@ (9 :> FOLDER_MIME),
      children |-> (1 :> <<2>>) @@ (2 :> <<3>>) @@ (3 :> <<4>>) @@ (9 :> <<>>) ]

\* three direct children: an empty folder and two files
ShapeFlat ==
    [ kind |-> (1 :> FOLDER_MIME) @@ (2 :> FOLDER_MIME) @@ (3 :> FILE_MIME)
               @@ (4 :> FILE_MIME) @@ (9 :> FOLDER_MIME),
      children |-> (1 :> <<2, 3, 4>>) @@ (2 :> <<>>) @@ (9 :> <<>>) ]

Shapes == {ShapeScenario, ShapeChain, ShapeFlat}

SrcItems == {2, 3, 4}

VARIABLES
    kind,       \* remote: item id -> mime type
    children,   \* remote: folder id -> its non-trashed children, in listing order
    perms,      \* remote: item id -> its permission listing
    nextId,     \* remote: next id handed to a created item
    dstArg,     \* args.dst
    pc,         \* "auth" | "list" | "item" | "getperm" | "grant" | "exit"
    pend,       \* (src, dst) of the recursive_copy call being entered
    stack,      \* frames of recursive_copy: [src, dst, items, i]
    newId,      \* new_folder_id / new_file_id of the current item
    grants,     \* copy_permissions: the filtered listing
    k,          \* copy_permissions: index of the grant being replayed
    exitCode,   \* process exit code, -1 while running
    faults,     \* HttpErrors raised so far
    fatal,      \* what ended the run with a non-zero exit code
    log         \* remote calls issued, in order

vars == <<kind, children, perms, nextId, dstArg, pc, pend, stack, newId,
          grants, k, exitCode, faults, fatal, log>>

remote == <<kind, children, perms, nextId>>


\* ------------------------------------------------------------ pure helpers
Last(s) == s[Len(s)]

Min(a, b) == IF a < b THEN a ELSE b

\* files().list without a page token: the first page only
FirstPage(seq) == SubSeq(seq, 1, Min(Len(seq), PageSize))

\* list_folder_contents: the children of folder_id the listing returns
list_folder_contents(folder_id) == FirstPage(children[folder_id])

\* (variant: the filter forgets the owner test)
EligibleAnyRole(p) == p.type \in {"user", "group", "domain"}

\* the filter of get_permissions
Eligible(p) == p.role # "owner" /\ p.type \in {"user", "group", "domain"}

get_permissions(listing) == SelectSeq(listing, Eligible)

\* perm['emailAddress'] / perm['domain'] on a record without that key
RaisesKeyError(perm) ==
    \/ perm.type \in {"user", "group"} /\ perm.emailAddress = Absent
    \/ perm.type = "domain" /\ perm.domain = Absent

\* the body copy_permissions builds for a grant
Body(perm) ==
    [ type |-> perm.type,
      role |-> perm.role,
      emailAddress |-> IF perm.type \in {"user", "group"} THEN perm.emailAddress ELSE Absent,
      domain |-> IF perm.type = "domain" THEN perm.domain ELSE Absent ]

NoBody == [type |-> Absent, role |-> Absent, emailAddress |-> Absent, domain |-> Absent]

\* one remote call as recorded in the log
\* (item: the source item it is for; target: the parent or the item it writes
\* to; ret: the id it returned; gid: the id of the listed grant it replays)
Call(op, item, target, ret, gid, body, ok) ==
    [op |-> op, item |-> item, target |-> target, ret |-> ret, gid |-> gid,
     body |-> body, ok |-> ok]

\* (variant: a folder is descended into before its permissions are copied)
NextAfterCreateDescend(mime) == IF mime = FOLDER_MIME THEN "list" ELSE "getperm"

\* the step that follows create_folder / copy_file inside the try block
NextAfterCreate(mime) == "getperm"

\* (variant: the loop body returns after the first item of a listing)
RECURSIVE NextItemFirstOnly(_)
NextItemFirstOnly(s) ==
    IF s = <<>> THEN <<>>
    ELSE IF Last(s).i = 0 /\ Len(Last(s).items) > 0
         THEN [s EXCEPT ![Len(s)].i = 1]
         ELSE NextItemFirstOnly(SubSeq(s, 1, Len(s) - 1))

\* the for loop of recursive_copy moves to the next item; a frame whose items
\* are used up returns to its caller, whose try block then ends as well
RECURSIVE NextItem(_)
NextItem(s) ==
    IF s = <<>> THEN <<>>
    ELSE IF Last(s).i < Len(Last(s).items)
         THEN [s EXCEPT ![Len(s)].i = @ + 1]
         ELSE NextItem(SubSeq(s, 1, Len(s) - 1))

Frame == Last(stack)
Cur == Frame.items[Frame.i]

\* (variant: the try block encloses the whole for loop, so an error ends it)
CaughtOutsideLoop(s) == NextItem(SubSeq(s, 1, Len(s) - 1))

\* an HttpError raised inside the try block of the current item is caught by
\* the except clause of that same turn of the loop, which then goes on
Caught(s) == NextItem(s)

\* control resumes with stack s: at its current item, or, the walk over, back
\* in main, which prints "Done" and ends with exit code 0
Resume(s) ==
    /\ stack' = s
    /\ pc' = IF s = <<>> THEN "exit" ELSE "item"
    /\ exitCode' = IF s = <<>> THEN 0 ELSE exitCode
    /\ UNCHANGED fatal

\* an exception no except HttpError clause catches reaches main: exit code 1
Fatal(what) ==
    /\ pc' = "exit"
    /\ exitCode' = 1
    /\ fatal' = what
    /\ UNCHANGED stack

\* copy_permissions has returned for the current item
AfterPermissions ==
    IF kind[Cur] = FOLDER_MIME
    THEN /\ pc' = "list"
         /\ UNCHANGED <<stack, exitCode, fatal>>
    ELSE Resume(NextItem(stack))

\* ------------------------------------------------------------------ Init
Init ==
    \E sh \in Shapes, pa \in {f \in [SrcItems -> PermListings] : f[3] \in NestedListings} :
      \E d \in {ExtDst, SrcRoot} \cup {x \in SrcItems : sh.kind[x] = FOLDER_MIME} :
        /\ kind = sh.kind
        /\ children = sh.children
        /\ perms = pa @@ (SrcRoot :> <<OwnerGrant>>) @@ (ExtDst :> <<OwnerGrant>>)
        /\ nextId = FirstNewId
        /\ dstArg = d
        /\ pc = "auth"
        /\ pend = [src |-> SrcRoot, dst |-> d]
        /\ stack = <<>>
        /\ newId = 0
        /\ grants = <<>>
        /\ k = 0
        /\ exitCode = -1
        /\ faults = 0
        /\ fatal = "none"
        /\ log = <<>>

\* ---------------------------------------------------------------- actions
\* main: authenticate_oauth
Authenticate ==
    /\ pc = "auth"
    /\ \/ /\ pc' = "list"
          /\ UNCHANGED <<exitCode, fatal, faults>>
       \/ /\ faults < MaxFaults
          /\ faults' = faults + 1
          /\ pc' = "exit"
          /\ exitCode' = 1
          /\ fatal' = "auth"
    /\ UNCHANGED <<remote, dstArg, pend, stack, newId, grants, k, log>>

\* recursive_copy(pend.src, pend.dst): entry and list_folder_contents
ListFolder ==
    /\ pc = "list"
    /\ \/ /\ Len(stack) >= MaxDepth
          /\ Fatal("RecursionError")
          /\ UNCHANGED <<log, faults>>
       \/ /\ Len(stack) < MaxDepth
          /\ log' = Append(log, Call("list", pend.src, 0, 0, 0, NoBody, TRUE))
          /\ Resume(NextItem(Append(stack, [src |-> pend.src, dst |-> pend.dst,
                                            items |-> list_folder_contents(pend.src),
                                            i |-> 0])))
          /\ UNCHANGED faults
       \/ /\ Len(stack) < MaxDepth
          /\ faults < MaxFaults
          /\ faults' = faults + 1
          /\ log' = Append(log, Call("list", pend.src, 0, 0, 0, NoBody, FALSE))
          /\ IF stack = <<>> THEN Fatal("list") ELSE Resume(Caught(stack))
    /\ UNCHANGED <<remote, dstArg, pend, newId, grants, k>>

\* recursive_copy: create_folder for a folder item
CreateFolder ==
    /\ pc = "item"
    /\ kind[Cur] = FOLDER_MIME
    /\ \/ /\ log' = Append(log, Call("create_folder", Cur, Frame.dst, nextId, 0, NoBody, TRUE))
          /\ kind' = kind @@ (nextId :> FOLDER_MIME)
          /\ children' = [children EXCEPT ![Frame.dst] = Append(@, nextId)] @@ (nextId :> <<>>)
          /\ perms' = perms @@ (nextId :> <<OwnerGrant>>)
          /\ nextId' = nextId + 1
          /\ newId' = nextId
          /\ pend' = [src |-> Cur, dst |-> nextId]
          /\ pc' = NextAfterCreate(FOLDER_MIME)
          /\ UNCHANGED <<stack, exitCode, fatal, faults>>
       \/ /\ faults < MaxFaults
          /\ faults' = faults + 1
          /\ log' = Append(log, Call("create_folder", Cur, Frame.dst, 0, 0, NoBody, FALSE))
          /\ Resume(Caught(stack))
          /\ UNCHANGED <<remote, newId, pend>>
    /\ UNCHANGED <<dstArg, grants, k>>

\* recursive_copy: copy_file for any other item
CopyFile ==
    /\ pc = "item"
    /\ kind[Cur] # FOLDER_MIME
    /\ \/ /\ log' = Append(log, Call("copy_file", Cur, Frame.dst, nextId, 0, NoBody, TRUE))
          /\ kind' = kind @@ (nextId :> FILE_MIME)
          /\ children' = [children EXCEPT ![Frame.dst] = Append(@, nextId)]
          /\ perms' = perms @@ (nextId :> <<OwnerGrant>>)
          /\ nextId' = nextId + 1
          /\ newId' = nextId
          /\ pc' = NextAfterCreate(FILE_MIME)
          /\ UNCHANGED <<stack, exitCode, fatal, faults>>
       \/ /\ faults < MaxFaults
          /\ faults' = faults + 1
          /\ log' = Append(log, Call("copy_file", Cur, Frame.dst, 0, 0, NoBody, FALSE))
          /\ Resume(Caught(stack))
          /\ UNCHANGED <<remote, newId>>
    /\ UNCHANGED <<dstArg, pend, grants, k>>

\* copy_permissions: get_permissions(src_id), outside any try of its own
GetPermissions ==
    /\ pc = "getperm"
    /\ \/ /\ log' = Append(log, Call("get_permissions", Cur, 0, 0, 0, NoBody, TRUE))
          /\ grants' = get_permissions(perms[Cur])
          /\ k' = 1
          /\ IF get_permissions(perms[Cur]) = <<>>
             THEN AfterPermissions
             ELSE /\ pc' = "grant"
                  /\ UNCHANGED <<stack, exitCode, fatal>>
          /\ UNCHANGED faults
       \/ /\ faults < MaxFaults
          /\ faults' = faults + 1
          /\ log' = Append(log, Call("get_permissions", Cur, 0, 0, 0, NoBody, FALSE))
          /\ Resume(Caught(stack))
          /\ UNCHANGED <<grants, k>>
    /\ UNCHANGED <<remote, dstArg, pend, newId>>

\* copy_permissions: one turn of the loop over the filtered grants
CreatePermission ==
    /\ pc = "grant"
    /\ LET perm == grants[k]
           done == IF k = Len(grants)
                   THEN AfterPermissions
                   ELSE /\ pc' = "grant"
                        /\ UNCHANGED <<stack, exitCode, fatal>>
       IN \/ /\ RaisesKeyError(perm)
             /\ Fatal("KeyError")
             /\ UNCHANGED <<log, perms, k, faults>>
          \/ /\ ~RaisesKeyError(perm)
             /\ log' = Append(log, Call("create_permission", Cur, newId, 0, perm.id, Body(perm), TRUE))
             /\ perms' = [perms EXCEPT ![newId] =
                            Append(@, [perm EXCEPT !.id = Len(perms[newId]) + 1])]
             /\ k' = k + 1
             /\ done
             /\ UNCHANGED faults
          \/ /\ ~RaisesKeyError(perm)
             /\ faults < MaxFaults
             /\ faults' = faults + 1
             /\ log' = Append(log, Call("create_permission", Cur, newId, 0, perm.id, Body(perm), FALSE))
             /\ k' = k + 1
             /\ done
             /\ UNCHANGED perms
    /\ UNCHANGED <<kind, children, nextId, dstArg, pend, newId, grants>>

Next ==
    \/ Authenticate
    \/ ListFolder
    \/ CreateFolder
    \/ CopyFile
    \/ GetPermissions
    \/ CreatePermission

Spec == Init /\ [][Next]_vars


\* ------------------------------------------------- vocabulary of the claims
Idx == 1..Len(log)

CallsOf(op) == {j \in Idx : log[j].op = op}

CallsFor(x) == {j \in Idx : log[j].item = x}

\* x and everything below it in the remote tree
RECURSIVE Desc(_)
Desc(x) ==
    {x} \cup (IF x \in DOMAIN children
              THEN UNION {Desc(children[x][n]) : n \in 1..Len(children[x])}
              ELSE {})

SrcFolders == {x \in SrcItems : kind[x] = FOLDER_MIME}
SrcFiles == {x \in SrcItems : kind[x] # FOLDER_MIME}

\* the folder that lists x
ParentOf(x) == CHOOSE f \in DOMAIN children : \E n \in 1..Len(children[f]) : children[f][n] = x

FitsOnePage == \A f \in DOMAIN children : Len(children[f]) <= PageSize

TopListed == \E j \in Idx : log[j].op = "list" /\ log[j].item = SrcRoot /\ log[j].ok

CreateOp(x) == IF kind[x] = FOLDER_MIME THEN "create_folder" ELSE "copy_file"

\* C1: with every listing on one page, the destination outside the source tree
\* and no remote call failing, the finished walk has issued exactly one
\* create-folder call per source folder and one copy-file call per source
\* file, each under the destination root (direct children of the source) or
\* under the id returned by the create-folder call of the item's source parent
C1_OneCallPerItem ==
    (pc = "exit" /\ TopListed /\ faults = 0 /\ dstArg = ExtDst /\ FitsOnePage) =>
        /\ Cardinality(CallsOf("create_folder")) = Cardinality(SrcFolders)
        /\ Cardinality(CallsOf("copy_file")) = Cardinality(SrcFiles)
        /\ \A x \in SrcItems :
             \E j \in Idx :
                /\ log[j].item = x
                /\ log[j].op = CreateOp(x)
                /\ \A j2 \in Idx : (log[j2].item = x /\ log[j2].op = CreateOp(x)) => j2 = j
                /\ IF ParentOf(x) = SrcRoot
                   THEN log[j].target = dstArg
                   ELSE \E jp \in Idx : /\ jp < j
                                        /\ log[jp].op = "create_folder"
                                        /\ log[jp].item = ParentOf(x)
                                        /\ log[jp].ok
                                        /\ log[j].target = log[jp].ret

FailedCreates == {j \in CallsOf("create_folder") : ~log[j].ok}

\* the only call ever issued for a folder whose creation failed, or for anything
\* below it, is that failed create-folder call
NothingBelowFailedFolder ==
    \A j \in FailedCreates :
        \A j2 \in Idx \ {j} : log[j2].item \notin Desc(log[j].item)

\* the item the loop is at has had no call made for it yet
CurrentItemUntouched ==
    (pc = "item") => CallsFor(Cur) = {}

\* a step in which the create-folder call of the current item fails
CreateFolderFails ==
    /\ pc = "item"
    /\ log' = Append(log, Call("create_folder", Cur, Frame.dst, 0, 0, NoBody, FALSE))

\* after such a step the loop is at the following sibling of the same listing,
\* with the same destination parent, or, after the last sibling, the frame
\* has returned
SiblingIsNext ==
    CreateFolderFails =>
        IF Frame.i < Len(Frame.items)
        THEN /\ pc' = "item"
             /\ Len(stack') = Len(stack)
             /\ Last(stack') = [Frame EXCEPT !.i = Frame.i + 1]
        ELSE /\ Len(stack') < Len(stack)
             /\ \/ pc' = "item"
                \/ pc' = "exit" /\ exitCode' = 0 /\ stack' = <<>>

\* C2: when the create-folder call for a source folder F fails with a remote
\* API error, no further call is issued for F or any descendant of F, and the
\* walk goes on with the sibling that follows F in the parent's listing
C2_FailedFolderSkipsSubtree ==
    /\ [](NothingBelowFailedFolder /\ CurrentItemUntouched)
    /\ [][SiblingIsNext]_vars

\* a folder with children failed to be created and its following sibling was
\* copied under the same destination parent
C2_Witness ==
    \E j \in FailedCreates :
        /\ children[log[j].item] # <<>>
        /\ \E j2 \in Idx : /\ j2 = j + 1
                           /\ log[j2].op = "copy_file"
                           /\ log[j2].target = log[j].target
                           /\ log[j2].ok

\* C3: every create-permission call replays a grant of the source item's
\* listing whose role is not owner and whose type is user, group or domain
C3_OnlyEligibleReplayed ==
    \A j \in CallsOf("create_permission") :
        /\ log[j].body.role # "owner"
        /\ log[j].body.type \in {"user", "group", "domain"}
        /\ \E n \in 1..Len(perms[log[j].item]) :
              LET p == perms[log[j].item][n]
              IN /\ p.id = log[j].gid
                 /\ p.type = log[j].body.type
                 /\ p.role = log[j].body.role
                 /\ p.role # "owner"
                 /\ p.type \in {"user", "group", "domain"}

\* both replayable grants of a listing that also holds an owner grant and an
\* "anyone" grant have been replayed
C3_Witness ==
    \E x \in SrcItems :
        /\ perms[x] = WithAnyone
        /\ Cardinality({j \in CallsFor(x) : log[j].op = "create_permission"}) = 2

\* C4: once copy_permissions is over for an item, a failed create-permission
\* call for one of its grants has been followed by a create-permission call
\* for every later grant of the listing that passes the filter
C4_LaterGrantsStillReplayed ==
    \A x \in SrcItems :
        \A j \in CallsFor(x) :
            (/\ log[j].op = "create_permission"
             /\ ~log[j].ok
             /\ ~(pc = "grant" /\ Cur = x)) =>
                \A n \in 1..Len(perms[x]) :
                    (Eligible(perms[x][n]) /\ perms[x][n].id > log[j].gid) =>
                        \E j2 \in CallsFor(x) :
                            /\ j2 > j
                            /\ log[j2].op = "create_permission"
                            /\ log[j2].gid = perms[x][n].id

\* the positions at which the log enters the subtree of x
Entries(x) ==
    LET below == Desc(x)
    IN {j \in Idx : /\ log[j].item \in below
                    /\ (j = 1 \/ log[j - 1].item \notin below)}

Touched == {log[j].item : j \in Idx}

PermOps == {"get_permissions", "create_permission"}

IsScenario ==
    /\ dstArg = ExtDst
    /\ children[SrcRoot] = <<2, 4>>
    /\ children[2] = <<3>>
    /\ perms[4] = OneDomain
    /\ \/ perms[2] = OneUser /\ perms[3] = OnlyOwner
       \/ perms[2] = OnlyOwner /\ perms[3] = OneUser

\* the calls of the log that create, copy or list permissions, as <<op, item>>
RECURSIVE Outline(_)
Outline(l) ==
    IF l = <<>> THEN <<>>
    ELSE IF Last(l).op \in {"create_folder", "copy_file", "get_permissions"}
         THEN Append(Outline(SubSeq(l, 1, Len(l) - 1)), <<Last(l).op, Last(l).item>>)
         ELSE Outline(SubSeq(l, 1, Len(l) - 1))

ScenarioOrder ==
    Outline(log) = << <<"create_folder", 2>>, <<"get_permissions", 2>>,
                      <<"copy_file", 3>>, <<"get_permissions", 3>>,
                      <<"copy_file", 4>>, <<"get_permissions", 4>> >>

ScenarioRun == IsScenario /\ faults = 0 /\ pc = "exit"

\* C6 as stated: in the scenario the calls come in the order create-folder(A),
\* copy-permissions(A), copy-file(x.txt), copy-permissions(x.txt),
\* copy-file(y.txt), copy-permissions(y.txt); 2 create-folder plus copy-file
\* calls, 2 permission-list calls, at most 2 create-permission calls, exit 0
C6_AsStated ==
    ScenarioRun =>
        /\ ScenarioOrder
        /\ Cardinality(CallsOf("create_folder") \cup CallsOf("copy_file")) = 2
        /\ Cardinality(CallsOf("get_permissions")) = 2
        /\ Cardinality(CallsOf("create_permission")) <= 2
        /\ exitCode = 0

\* C6 amended: the same order, with 3 create-folder plus copy-file calls
\* (1 + 2), 3 permission-list calls, at most 2 create-permission calls, exit 0
C6_Scenario ==
    ScenarioRun =>
        /\ ScenarioOrder
        /\ Cardinality(CallsOf("create_folder")) = 1
        /\ Cardinality(CallsOf("copy_file")) = 2
        /\ Cardinality(CallsOf("get_permissions")) = 3
        /\ Cardinality(CallsOf("create_permission")) <= 2
        /\ exitCode = 0

\* the scenario has run to its end and both grants were replayed
C6_Witness ==
    /\ ScenarioRun
    /\ Cardinality(CallsOf("create_permission")) = 2
    /\ Len(log) = 10

\* C7: (with the destination outside the source tree) once the top-level
\* listing has returned, the process ends with exit code 0; a non-zero exit
\* code comes only from authentication or from the top-level listing
C7_ExitZeroAfterTopListing ==
    (pc = "exit" /\ dstArg = ExtDst) =>
        /\ TopListed => exitCode = 0
        /\ exitCode # 0 => fatal \in {"auth", "list"}

\* C8: (with the destination outside the source tree) after a walk that
\* reached its end, every folder that was created and whose permission copy
\* hit a remote API error, in listing the grants or in creating one, has had
\* its children listed
C8_PermissionErrorKeepsContent ==
    (pc = "exit" /\ exitCode = 0 /\ dstArg = ExtDst) =>
        \A j \in CallsOf("create_folder") :
            (/\ log[j].ok
             /\ \E j2 \in CallsFor(log[j].item) :
                   log[j2].op \in PermOps /\ ~log[j2].ok) =>
                \E j3 \in CallsOf("list") : log[j3].item = log[j].item

\* C9: with the destination outside the source tree, a run whose top-level
\* listing returned ends with exit code 0 whatever the listed grants carry,
\* and, no remote call failing, every grant of a visited item that passes the
\* filter and carries its emailAddress or domain has been replayed with the
\* body {type, role, emailAddress} or {type, role, domain}
C9_MissingKeyIsSkipped ==
    (pc = "exit" /\ TopListed /\ dstArg = ExtDst) =>
        /\ exitCode = 0
        /\ faults = 0 =>
              \A x \in SrcItems \cap Touched : \A n \in 1..Len(perms[x]) :
                  (Eligible(perms[x][n]) /\ ~RaisesKeyError(perms[x][n])) =>
                      \E j \in CallsFor(x) : /\ log[j].op = "create_permission"
                                             /\ log[j].gid = perms[x][n].id
                                             /\ log[j].body = Body(perms[x][n])

\* C10: whatever the destination folder, no item created during the run is
\* later listed or copied as a source item, and the walk does not end by
\* running out of call stack
C10_SingleForwardPass ==
    /\ \A j \in Idx : log[j].item < FirstNewId
    /\ fatal # "RecursionError"

=============================================================================
